---- MODULE Spec2Model ----
(***************************************************************************)
(* The graphql-ws connection session of mysite/graphql.py                  *)
(* (graphql_ws_server, observe_async_results, send_json, receive_json)     *)
(* together with the event bus of mysite/routing.py (pubsub) that feeds    *)
(* the subscription streams.                                               *)
(*                                                                         *)
(* One connection is modelled.  The dispatch loop reads the control frames *)
(* the client has put on the wire one at a time; every `start` that yields *)
(* a stream launches a consumer task (asyncio.ensure_future) that runs     *)
(* interleaved with the loop.  A send is two steps: the frame is handed to *)
(* the socket (it is appended to `sent`) and the coroutine stays suspended *)
(* in `await websocket.send_text` until the send completes.                *)
(*                                                                         *)
(* Two smaller parts of the program have their own specifications over     *)
(* the same variables: HttpSpec is the POST handler of mysite/graphql.py   *)
(* (graphql_http_server, extract_data_from_request), BindSpec is the       *)
(* subscription registry of mysite/subscription.py                         *)
(* (SubscriptionAwareResolverMap).  Each leaves the other parts' variables *)
(* at their initial values.                                                *)
(***************************************************************************)
EXTENDS Naturals, Sequences, FiniteSets

\* ----------------------------------------------------------------- bounds
\* With these values the state space of Spec (900,114 states) is explored
\* completely.  It is also explored completely with any one of its bounds
\* raised by one: MaxFrames 4 (8,828,240 states), MaxStreams 3 (13,069,042
\* states), MaxEvents 3 (5,699,336 states).  HttpSpec depends on MaxErrors
\* alone and BindSpec on MaxRegs alone.
MaxFrames == 3      \* control frames the dispatch loop reads
MaxStreams == 2     \* streams the executor creates on this connection
MaxEvents == 2      \* events published on the "message" channel
MaxErrors == 2      \* errors one execution result carries
MaxRegs == 2        \* registrations made on the subscription registry

\* ------------------------------------------------------------- vocabulary
Ids == {"A", "B"}                 \* client-chosen operation ids
NoId == "none"

GQL_CONNECTION_INIT == "connection_init"
GQL_CONNECTION_ACK == "connection_ack"
GQL_CONNECTION_TERMINATE == "connection_terminate"
GQL_START == "start"
GQL_DATA == "data"
GQL_ERROR == "error"
GQL_COMPLETE == "complete"
GQL_STOP == "stop"
OtherType == "ka"                 \* any type the loop has no branch for

\* What a start frame's payload makes parse() and subscribe() do.
\*   "stream"    the executor returns a live stream
\*   "invalid"   the executor returns an ExecutionResult carrying errors
\*   "syntax"    parse(query) raises a GraphQLSyntaxError
Payloads == {"stream", "invalid", "syntax"}
NoPayload == "none"

StreamIds == 1..MaxStreams
NoItem == [src |-> 0, ev |-> 0]

Message(t, i, p) == [type |-> t, id |-> i, payload |-> p]
NoMessage == Message("none", NoId, NoPayload)

\* The HTTP handler's inputs.
DATA_TYPE_JSON == "application/json"
ContentTypes == {DATA_TYPE_JSON, "text/plain"}
\* What the posted body is: a JSON object, another JSON value, or no JSON.
Bodies == {"object", "array", "scalar", "malformed"}
Queries == {"absent", "{ hello }", "{ notes }"}
Variables == {"absent", "given"}
NoRequest ==
    [ctype |-> "none", body |-> "none", query |-> "absent", variables |-> "absent"]
\* The arguments graphql() is invoked with.
NoCall == [invoked |-> FALSE, query |-> "absent", variables |-> "absent"]
\* What the executor reports: result.data and the number of result.errors.
DataValues == {"null", "hello", "notes"}
NoResult == [data |-> "absent", nerrors |-> 0]
NoResponse ==
    [status |-> 0, kind |-> "none", data |-> "absent", hasErrors |-> FALSE,
     nerrors |-> 0]

\* The subscription registry's inputs: field names, subscribe-functions.
FieldNames == {"messages", "notes", "other"}
Subscribers == {"f", "g"}
\* A registration closure not created; a field with no subscribe-function.
NoName == "none"
NoSubscriber == "none"
\* The schema's type of the registry's name: whether type_map has it, and
\* the subscribe attribute of each of its fields.
NoSchema == [present |-> FALSE, subscribe |-> <<>>]

VARIABLES
    nframes,        \* how many control frames receive_json has returned
    message,        \* graphql_ws_server: message (the frame read last)
    pc,             \* the dispatch loop: "receive", "sending" or "closed"
    closedBy,       \* why the loop was left: "none", "terminate", "drop", "error"
    subscriptions,  \* graphql_ws_server: subscriptions (operation id -> stream)
    nstreams,       \* streams created so far; stream k is the k-th created
    sstate,         \* per stream: "none", "live", "ended", "closed"
    tag,            \* per stream: the operation_id its consumer task was given
    born,           \* per stream: how many events had been published at its start
    queue,          \* per stream: events delivered by the bus, not yet consumed
    listeners,      \* the bus: streams listening on the "message" channel
    task,           \* per stream: its observe_async_results task
    nevents,        \* events published so far
    sent,           \* every frame handed to websocket.send_text, in order
    consumed,       \* per stream: the items the stream has produced, in order
    deregs,         \* per stream: how often its listener was deregistered
    stopped,        \* operation id -> the stream a processed `stop` cancelled,
                    \* until the id is started again
    hpc,            \* graphql_http_server: "idle", "extract", "execute",
                    \* "respond", "responded" or "raised"
    request,        \* the request being handled
    call,           \* the arguments graphql() was invoked with, NoCall if it was not
    result,         \* what graphql() returned
    response,       \* the response the handler returned
    subscribers,    \* self._subscribers: the (name, subscriber) items in
                    \* insertion order
    registrar,      \* the name held by a register_subscriber closure not yet
                    \* applied, NoName if there is none
    nregs,          \* registrations made so far
    bpc,            \* bind_to_schema: "open" (not called), "bound" (returned)
                    \* or "failed" (raised)
    schema,         \* the schema bind_to_schema was called with, as it left it
    superRaised     \* whether ResolverMap.bind_to_schema raised

vars ==
    <<nframes, message, pc, closedBy, subscriptions, nstreams,
      sstate, tag, born, queue, listeners, task, nevents, sent, consumed, deregs,
      stopped, hpc, request, call, result, response,
      subscribers, registrar, nregs, bpc, schema, superRaised>>

httpVars == <<hpc, request, call, result, response>>
bindVars == <<subscribers, registrar, nregs, bpc, schema, superRaised>>
auxVars == <<httpVars, bindVars>>
wsVars ==
    <<nframes, message, pc, closedBy, subscriptions, nstreams,
      sstate, tag, born, queue, listeners, task, nevents, sent, consumed, deregs,
      stopped>>

loopVars == <<pc, closedBy>>
streamVars == <<nstreams, sstate, tag, born, queue, listeners, task, consumed, deregs>>

\* ---------------------------------------------------------------- helpers
Frame(t, i, it) == [type |-> t, id |-> i, item |-> it]

\* d[k] = v, k added when new (a Python dict assignment).
DictSet(d, k, v) == [x \in DOMAIN d \cup {k} |-> IF x = k THEN v ELSE d[x]]

\* del d[k]
DictDel(d, k) == [x \in DOMAIN d \ {k} |-> d[x]]

\* The data frames of `s` that carry operation id `i`.
DataFramesOfId(s, i) ==
    LET IsData(f) == f.type = GQL_DATA /\ f.id = i IN SelectSeq(s, IsData)

\* The items of the data frames of `s` that stream `k` produced.
DataItemsOfStream(s, k) ==
    LET IsMine(f) == f.type = GQL_DATA /\ f.item.src = k
        fs == SelectSeq(s, IsMine)
    IN [n \in 1..Len(fs) |-> fs[n].item]

FramesOfType(s, t, i) ==
    LET Is(f) == f.type = t /\ f.id = i IN SelectSeq(s, Is)

\* ------------------------------------------------------------------- Init
Init ==
    /\ nframes = 0
    /\ message = NoMessage
    /\ pc = "receive"
    /\ closedBy = "none"
    /\ subscriptions = <<>>
    /\ nstreams = 0
    /\ sstate = [k \in StreamIds |-> "none"]
    /\ tag = [k \in StreamIds |-> NoId]
    /\ born = [k \in StreamIds |-> 0]
    /\ queue = [k \in StreamIds |-> <<>>]
    /\ listeners = {}
    /\ task = [k \in StreamIds |-> "none"]
    /\ nevents = 0
    /\ sent = <<>>
    /\ consumed = [k \in StreamIds |-> <<>>]
    /\ deregs = [k \in StreamIds |-> 0]
    /\ stopped = <<>>
    /\ hpc = "idle"
    /\ request = NoRequest
    /\ call = NoCall
    /\ result = NoResult
    /\ response = NoResponse
    /\ subscribers = <<>>
    /\ registrar = NoName
    /\ nregs = 0
    /\ bpc = "open"
    /\ schema = NoSchema
    /\ superRaised = FALSE

\* ------------------------------------------------------- the dispatch loop
\* receive_json returns the client's next control frame m.
Receive(m) ==
    /\ pc = "receive"
    /\ nframes < MaxFrames
    /\ nframes' = nframes + 1
    /\ message' = m
    /\ UNCHANGED auxVars

\* An exception leaves graphql_ws_server: nothing catches it.
Raise(why) ==
    /\ pc' = "closed"
    /\ closedBy' = why

\* The loop hands a frame to send_json and awaits it.
LoopSend(f) ==
    /\ sent' = Append(sent, f)
    /\ pc' = "sending"
    /\ UNCHANGED closedBy

\* The handshake branch without its reply.
HandleInitSilent ==
    /\ Receive(Message(GQL_CONNECTION_INIT, NoId, NoPayload))
    /\ UNCHANGED <<pc, closedBy, subscriptions, streamVars, nevents, sent, stopped>>

HandleInit ==
    /\ Receive(Message(GQL_CONNECTION_INIT, NoId, NoPayload))
    /\ LoopSend(Frame(GQL_CONNECTION_ACK, NoId, NoItem))
    /\ UNCHANGED <<subscriptions, streamVars, nevents, stopped>>

\* `continue` where the code has `break`.
HandleTerminateContinues ==
    /\ Receive(Message(GQL_CONNECTION_TERMINATE, NoId, NoPayload))
    /\ UNCHANGED <<pc, closedBy, subscriptions, streamVars, nevents, sent, stopped>>

HandleTerminate ==
    /\ Receive(Message(GQL_CONNECTION_TERMINATE, NoId, NoPayload))
    /\ pc' = "closed"
    /\ closedBy' = "terminate"
    /\ UNCHANGED <<subscriptions, streamVars, nevents, sent, stopped>>

\* parse(query) raises.
HandleStartSyntax(i) ==
    /\ Receive(Message(GQL_START, i, "syntax"))
    /\ Raise("error")
    /\ UNCHANGED <<subscriptions, streamVars, nevents, sent, stopped>>

\* The error result is not reported: formatting it raises.
HandleStartInvalidRaises(i) ==
    /\ Receive(Message(GQL_START, i, "invalid"))
    /\ Raise("error")
    /\ UNCHANGED <<subscriptions, streamVars, nevents, sent, stopped>>

\* subscribe() returns an ExecutionResult.
HandleStartInvalid(i) ==
    /\ Receive(Message(GQL_START, i, "invalid"))
    /\ LoopSend(Frame(GQL_ERROR, i, NoItem))
    /\ UNCHANGED <<subscriptions, streamVars, nevents, stopped>>

\* `await observe_async_results(...)` where the code has asyncio.ensure_future:
\* the loop waits in the handler for the stream to end.
HandleStartStreamAwaits(i) ==
    /\ Receive(Message(GQL_START, i, "stream"))
    /\ nstreams < MaxStreams
    /\ LET k == nstreams + 1
       IN /\ nstreams' = k
          /\ sstate' = [sstate EXCEPT ![k] = "live"]
          /\ listeners' = listeners \cup {k}
          /\ subscriptions' = DictSet(subscriptions, i, k)
          /\ tag' = [tag EXCEPT ![k] = i]
          /\ born' = [born EXCEPT ![k] = nevents]
          /\ task' = [task EXCEPT ![k] = "waiting"]
          /\ stopped' = DictDel(stopped, i)
    /\ pc' = "awaiting"
    /\ UNCHANGED <<closedBy, queue, consumed, deregs, nevents, sent>>

\* subscribe() returns a stream: it is stored under the id and a consumer task
\* is launched for it.  Creating the stream registers its listener on the bus.
HandleStartStream(i) ==
    /\ Receive(Message(GQL_START, i, "stream"))
    /\ nstreams < MaxStreams
    /\ LET k == nstreams + 1
       IN /\ nstreams' = k
          /\ sstate' = [sstate EXCEPT ![k] = "live"]
          /\ listeners' = listeners \cup {k}
          /\ subscriptions' = DictSet(subscriptions, i, k)
          /\ tag' = [tag EXCEPT ![k] = i]
          /\ born' = [born EXCEPT ![k] = nevents]
          /\ task' = [task EXCEPT ![k] = "waiting"]
          /\ stopped' = DictDel(stopped, i)
    /\ UNCHANGED <<pc, closedBy, queue, consumed, deregs, nevents, sent>>

\* results.aclose(): the listener is deregistered, what the bus had queued is
\* dropped, the stream is closed.  Closing a stream that has ended releases
\* nothing.
Aclose(k) ==
    /\ sstate' = [sstate EXCEPT ![k] = "closed"]
    /\ listeners' = listeners \ {k}
    /\ queue' = [queue EXCEPT ![k] = <<>>]
    /\ deregs' = [deregs EXCEPT ![k] = IF k \in listeners THEN @ + 1 ELSE @]

\* The stop branch without its membership test: a KeyError for an unknown id.
HandleStopUnchecked(i) ==
    /\ Receive(Message(GQL_STOP, i, NoPayload))
    /\ IF i \in DOMAIN subscriptions
       THEN /\ Aclose(subscriptions[i])
            /\ subscriptions' = DictDel(subscriptions, i)
            /\ stopped' = DictSet(stopped, i, subscriptions[i])
            /\ UNCHANGED <<pc, closedBy>>
       ELSE /\ Raise("error")
            /\ UNCHANGED <<subscriptions, sstate, listeners, queue, deregs, stopped>>
    /\ UNCHANGED <<nstreams, tag, born, task, consumed, nevents, sent>>

HandleStop(i) ==
    /\ Receive(Message(GQL_STOP, i, NoPayload))
    /\ IF i \in DOMAIN subscriptions
       THEN /\ Aclose(subscriptions[i])
            /\ subscriptions' = DictDel(subscriptions, i)
            /\ stopped' = DictSet(stopped, i, subscriptions[i])
       ELSE UNCHANGED <<subscriptions, sstate, listeners, queue, deregs, stopped>>
    /\ UNCHANGED <<pc, closedBy, nstreams, tag, born, task, consumed, nevents, sent>>

\* A final `else: raise` on the if/elif chain.
HandleOtherRaises ==
    /\ Receive(Message(OtherType, NoId, NoPayload))
    /\ Raise("error")
    /\ UNCHANGED <<subscriptions, streamVars, nevents, sent, stopped>>

\* No branch of the if/elif chain matches: the loop reads the next frame.
HandleOther ==
    /\ Receive(Message(OtherType, NoId, NoPayload))
    /\ UNCHANGED <<pc, closedBy, subscriptions, streamVars, nevents, sent, stopped>>

\* The loop's send_json completes.
LoopSendEnd ==
    /\ pc = "sending"
    /\ pc' = "receive"
    /\ UNCHANGED <<auxVars, nframes, message, closedBy, subscriptions,
                   streamVars, nevents, sent, stopped>>

\* The transport drops: the loop's pending receive_text (or send_text) raises.
Drop ==
    /\ pc # "closed"
    /\ Raise("drop")
    /\ UNCHANGED <<auxVars, nframes, message, subscriptions, streamVars,
                   nevents, sent, stopped>>

\* ------------------------------------------------------------ the event bus
\* A bus that keeps every event for the listeners to come (a replay buffer).
PublishBuffers ==
    /\ nevents < MaxEvents
    /\ nevents' = nevents + 1
    /\ queue' = [k \in StreamIds |->
                    IF k \in listeners \/ k > nstreams
                    THEN Append(queue[k], nevents + 1)
                    ELSE queue[k]]
    /\ UNCHANGED <<auxVars, nframes, message, loopVars, subscriptions, nstreams, sstate,
                   tag, born, listeners, task, sent, consumed, deregs, stopped>>

\* pubsub.emit("message", value): every listener registered now gets the event.
Publish ==
    /\ nevents < MaxEvents
    /\ nevents' = nevents + 1
    /\ queue' = [k \in StreamIds |->
                    IF k \in listeners THEN Append(queue[k], nevents + 1)
                    ELSE queue[k]]
    /\ UNCHANGED <<auxVars, nframes, message, loopVars, subscriptions, nstreams, sstate,
                   tag, born, listeners, task, sent, consumed, deregs, stopped>>

\* The source of stream k ends by itself.
SourceEnd(k) ==
    /\ sstate[k] = "live"
    /\ sstate' = [sstate EXCEPT ![k] = "ended"]
    /\ listeners' = listeners \ {k}
    /\ deregs' = [deregs EXCEPT ![k] = IF k \in listeners THEN @ + 1 ELSE @]
    /\ UNCHANGED <<auxVars, nframes, message, loopVars, subscriptions, nstreams, tag, born,
                   queue, task, nevents, sent, consumed, stopped>>

\* ------------------------------------------------------- the consumer tasks
\* observe_async_results hands frame f to send_json.  On a connection the
\* session has left the send raises and the task dies with it.
TaskSend(k, f, busy) ==
    IF pc = "closed"
    THEN /\ task' = [task EXCEPT ![k] = "failed"]
         /\ UNCHANGED sent
    ELSE /\ task' = [task EXCEPT ![k] = busy]
         /\ sent' = Append(sent, f)

\* The task takes the result and sends nothing for it.
ConsumerItemSilent(k) ==
    /\ task[k] = "waiting"
    /\ sstate[k] \in {"live", "ended"}
    /\ queue[k] # <<>>
    /\ queue' = [queue EXCEPT ![k] = Tail(@)]
    /\ consumed' = [consumed EXCEPT ![k] = Append(@, [src |-> k, ev |-> Head(queue[k])])]
    /\ UNCHANGED <<auxVars, nframes, message, loopVars, subscriptions, nstreams, sstate,
                   tag, born, listeners, task, nevents, sent, deregs, stopped>>

\* The task tags its frame with the loop's current operation id, not its own.
ConsumerItemLoopId(k) ==
    /\ task[k] = "waiting"
    /\ sstate[k] \in {"live", "ended"}
    /\ queue[k] # <<>>
    /\ LET it == [src |-> k, ev |-> Head(queue[k])]
       IN /\ queue' = [queue EXCEPT ![k] = Tail(@)]
          /\ consumed' = [consumed EXCEPT ![k] = Append(@, it)]
          /\ TaskSend(k, Frame(GQL_DATA, message.id, it), "sending")
    /\ UNCHANGED <<auxVars, nframes, message, loopVars, subscriptions, nstreams, sstate,
                   tag, born, listeners, nevents, deregs, stopped>>

\* `async for` gets the next result and the task sends its data frame.
ConsumerItem(k) ==
    /\ task[k] = "waiting"
    /\ sstate[k] \in {"live", "ended"}
    /\ queue[k] # <<>>
    /\ LET it == [src |-> k, ev |-> Head(queue[k])]
       IN /\ queue' = [queue EXCEPT ![k] = Tail(@)]
          /\ consumed' = [consumed EXCEPT ![k] = Append(@, it)]
          /\ TaskSend(k, Frame(GQL_DATA, tag[k], it), "sending")
    /\ UNCHANGED <<auxVars, nframes, message, loopVars, subscriptions, nstreams, sstate,
                   tag, born, listeners, nevents, deregs, stopped>>

\* The send of a data frame completes: back to the `async for`.
ConsumerSendEnd(k) ==
    /\ task[k] = "sending"
    /\ task' = [task EXCEPT ![k] = IF pc = "closed" THEN "failed" ELSE "waiting"]
    /\ UNCHANGED <<auxVars, nframes, message, loopVars, subscriptions, nstreams, sstate,
                   tag, born, queue, listeners, nevents, sent, consumed, deregs, stopped>>

\* The `async for` ends (the stream ended or was closed): the complete frame.
ConsumerEnd(k) ==
    /\ task[k] = "waiting"
    /\ \/ sstate[k] = "closed"
       \/ sstate[k] = "ended" /\ queue[k] = <<>>
    /\ TaskSend(k, Frame(GQL_COMPLETE, tag[k], NoItem), "completing")
    /\ UNCHANGED <<auxVars, nframes, message, loopVars, subscriptions, nstreams, sstate,
                   tag, born, queue, listeners, nevents, consumed, deregs, stopped>>

\* The send of the complete frame completes: the task is done.
ConsumerCompleteEnd(k) ==
    /\ task[k] = "completing"
    /\ task' = [task EXCEPT ![k] = IF pc = "closed" THEN "failed" ELSE "done"]
    /\ UNCHANGED <<auxVars, nframes, message, loopVars, subscriptions, nstreams, sstate,
                   tag, born, queue, listeners, nevents, sent, consumed, deregs, stopped>>

\* ------------------------------------------------------ the HTTP handler
\* A POST arrives.
HttpRequest ==
    /\ hpc = "idle"
    /\ \E c \in ContentTypes, b \in Bodies, q \in Queries, v \in Variables :
        request' = [ctype |-> c, body |-> b,
                    query |-> IF b = "object" THEN q ELSE "absent",
                    variables |-> IF b = "object" THEN v ELSE "absent"]
    /\ hpc' = "extract"
    /\ call' = NoCall
    /\ result' = NoResult
    /\ response' = NoResponse
    /\ UNCHANGED <<wsVars, bindVars>>

\* JSONResponse({"errors": [{"message": error.message}]}): the except
\* GraphQLError branch.
GraphQLErrorResponse ==
    [status |-> 200, kind |-> "json", data |-> "absent", hasErrors |-> TRUE,
     nerrors |-> 1]

\* Response(error.message or error.status, status_code=400): the except
\* HttpError branch.
HttpErrorResponse ==
    [status |-> 400, kind |-> "text", data |-> "absent", hasErrors |-> FALSE,
     nerrors |-> 0]

\* extract_data_from_request, and the except branches it can end in.
HttpExtract ==
    /\ hpc = "extract"
    /\ IF request.ctype # DATA_TYPE_JSON
       THEN hpc' = "responded" /\ response' = HttpErrorResponse
       ELSE IF request.body = "malformed"
       THEN hpc' = "raised" /\ UNCHANGED response
       ELSE IF request.body # "object"
       THEN hpc' = "responded" /\ response' = GraphQLErrorResponse
       ELSE hpc' = "execute" /\ UNCHANGED response
    /\ UNCHANGED <<wsVars, bindVars, request, call, result>>

\* graphql() is invoked and returns a result.
HttpExecute ==
    /\ hpc = "execute"
    /\ call' = [invoked |-> TRUE, query |-> request.query,
                variables |-> request.variables]
    /\ \E d \in DataValues, n \in 0..MaxErrors :
        result' = [data |-> d, nerrors |-> n]
    /\ hpc' = "respond"
    /\ UNCHANGED <<wsVars, bindVars, request, response>>

\* graphql() (or prepare_context) raises a GraphQLError.
HttpExecuteRaises ==
    /\ hpc = "execute"
    /\ call' = [invoked |-> TRUE, query |-> request.query,
                variables |-> request.variables]
    /\ hpc' = "responded"
    /\ response' = GraphQLErrorResponse
    /\ UNCHANGED <<wsVars, bindVars, request, result>>

\* The else branch of the try: the JSON envelope, always with the errors key.
HttpRespondAlwaysErrors ==
    /\ hpc = "respond"
    /\ response' = [status |-> 200, kind |-> "json", data |-> result.data,
                    hasErrors |-> TRUE, nerrors |-> result.nerrors]
    /\ hpc' = "responded"
    /\ UNCHANGED <<wsVars, bindVars, request, call, result>>

\* The else branch of the try: the JSON envelope of the result.
HttpRespond ==
    /\ hpc = "respond"
    /\ response' = [status |-> 200, kind |-> "json", data |-> result.data,
                    hasErrors |-> result.nerrors > 0, nerrors |-> result.nerrors]
    /\ hpc' = "responded"
    /\ UNCHANGED <<wsVars, bindVars, request, call, result>>

\* The request is over; the handler is ready for the next one.
HttpDone ==
    /\ hpc \in {"responded", "raised"}
    /\ hpc' = "idle"
    /\ request' = NoRequest
    /\ call' = NoCall
    /\ result' = NoResult
    /\ response' = NoResponse
    /\ UNCHANGED <<wsVars, bindVars>>

HttpNext ==
    \/ HttpRequest
    \/ HttpExtract
    \/ HttpExecute
    \/ HttpExecuteRaises
    \/ HttpRespond
    \/ HttpDone

HttpSpec == Init /\ [][HttpNext]_vars

\* ------------------------------------------------ the subscription registry
\* self._subscribers[name] = f: a new name goes last, a known name keeps
\* its place and takes the new function.
SetSubscriber(subs, name, f) ==
    IF \E n \in 1..Len(subs) : subs[n].name = name
    THEN [n \in 1..Len(subs) |->
            IF subs[n].name = name THEN [name |-> name, fn |-> f] ELSE subs[n]]
    ELSE Append(subs, [name |-> name, fn |-> f])

\* subscription(name, subscriber=f).
Subscription(name, f) ==
    /\ bpc = "open"
    /\ nregs < MaxRegs
    /\ nregs' = nregs + 1
    /\ subscribers' = SetSubscriber(subscribers, name, f)
    /\ UNCHANGED <<wsVars, httpVars, registrar, bpc, schema, superRaised>>

\* subscription(name): no subscriber given, the closure is returned.
CreateRegisterSubscriber(name) ==
    /\ bpc = "open"
    /\ nregs < MaxRegs
    /\ registrar = NoName
    /\ registrar' = name
    /\ UNCHANGED <<wsVars, httpVars, subscribers, nregs, bpc, schema, superRaised>>

\* register_subscriber(f): the closure is applied to the decorated function.
RegisterSubscriber(f) ==
    /\ bpc = "open"
    /\ registrar # NoName
    /\ nregs' = nregs + 1
    /\ subscribers' = SetSubscriber(subscribers, registrar, f)
    /\ registrar' = NoName
    /\ UNCHANGED <<wsVars, httpVars, bpc, schema, superRaised>>

\* The items of subs whose name is not a field of a type with fields fs.
Missing(subs, fs) == {n \in 1..Len(subs) : subs[n].name \notin fs}

\* How many items the loop of bind_to_schema attaches before it raises or ends.
Attached(subs, fs) ==
    IF Missing(subs, fs) = {} THEN Len(subs)
    ELSE (CHOOSE n \in Missing(subs, fs) : \A m \in Missing(subs, fs) : n <= m) - 1

\* The fields of the type after the first lim items were attached.
Attach(subs, fs, lim) ==
    [x \in fs |->
        IF \E n \in 1..lim : subs[n].name = x
        THEN (CHOOSE r \in {subs[n] : n \in 1..lim} : r.name = x).fn
        ELSE NoSubscriber]

\* bind_to_schema that skips the names the type does not have.
BindToSchemaSkips ==
    /\ bpc = "open"
    /\ \E present \in BOOLEAN, fs \in SUBSET FieldNames, raises \in BOOLEAN :
        /\ ~present => fs = {}
        /\ superRaised' = raises
        /\ IF raises
           THEN /\ bpc' = "failed"
                /\ schema' = [present |-> present,
                              subscribe |-> [x \in fs |-> NoSubscriber]]
           ELSE /\ bpc' = "bound"
                /\ schema' =
                    [present |-> present,
                     subscribe |->
                        [x \in fs |->
                            IF \E n \in 1..Len(subscribers) : subscribers[n].name = x
                            THEN (CHOOSE r \in {subscribers[n] : n \in 1..Len(subscribers)} :
                                    r.name = x).fn
                            ELSE NoSubscriber]]
    /\ UNCHANGED <<wsVars, httpVars, subscribers, registrar, nregs>>

\* bind_to_schema(schema): the inherited binding first, which may raise; then
\* each registered item in order, raising at the first name the type lacks.
\* With no such type in the schema, graphql_type is None and the first item
\* raises on graphql_type.fields.
BindToSchema ==
    /\ bpc = "open"
    /\ \E present \in BOOLEAN, fs \in SUBSET FieldNames, raises \in BOOLEAN :
        /\ ~present => fs = {}
        /\ superRaised' = raises
        /\ IF raises
           THEN /\ bpc' = "failed"
                /\ schema' = [present |-> present,
                              subscribe |-> [x \in fs |-> NoSubscriber]]
           ELSE /\ bpc' = IF Missing(subscribers, fs) = {} THEN "bound" ELSE "failed"
                /\ schema' = [present |-> present,
                              subscribe |->
                                Attach(subscribers, fs, Attached(subscribers, fs))]
    /\ UNCHANGED <<wsVars, httpVars, subscribers, registrar, nregs>>

BindNext ==
    \/ \E name \in FieldNames, f \in Subscribers : Subscription(name, f)
    \/ \E name \in FieldNames : CreateRegisterSubscriber(name)
    \/ \E f \in Subscribers : RegisterSubscriber(f)
    \/ BindToSchema

BindSpec == Init /\ [][BindNext]_vars

\* The coroutines suspended in `await websocket.send_text` on this connection:
\* 0 is the dispatch loop, k > 0 the consumer task of stream k.
Writers ==
    (IF pc = "sending" THEN {0} ELSE {})
        \cup {k \in 1..nstreams : task[k] \in {"sending", "completing"}}

\* ------------------------------------------------------------ specification
Next ==
    \/ HandleInit
    \/ HandleTerminate
    \/ \E i \in Ids : HandleStartSyntax(i)
    \/ \E i \in Ids : HandleStartInvalid(i)
    \/ \E i \in Ids : HandleStartStream(i)
    \/ \E i \in Ids : HandleStop(i)
    \/ HandleOther
    \/ LoopSendEnd
    \/ Drop
    \/ Publish
    \/ \E k \in StreamIds : SourceEnd(k)
    \/ \E k \in StreamIds : ConsumerItem(k)
    \/ \E k \in StreamIds : ConsumerSendEnd(k)
    \/ \E k \in StreamIds : ConsumerEnd(k)
    \/ \E k \in StreamIds : ConsumerCompleteEnd(k)

Spec == Init /\ [][Next]_vars

TypeOK ==
    /\ nframes \in 0..MaxFrames
    /\ pc \in {"receive", "sending", "closed"}
    /\ closedBy \in {"none", "terminate", "drop", "error"}
    /\ DOMAIN subscriptions \subseteq Ids
    /\ \A i \in DOMAIN subscriptions : subscriptions[i] \in 1..nstreams
    /\ listeners \subseteq 1..nstreams
    /\ \A k \in StreamIds : sstate[k] \in {"none", "live", "ended", "closed"}
    /\ \A k \in StreamIds :
        task[k] \in {"none", "waiting", "sending", "completing", "done", "failed"}
\* ------------------------------------------------------------------ claims
\* The dispatch loop has just read control frame m (this step is its handler).
Handled(m) == nframes' = nframes + 1 /\ message' = m

Last(s) == s[Len(s)]

\* C1: once `stop id=X` has cancelled the stream registered under X, that
\* stream's listener has been deregistered exactly once, and as long as X is
\* not started again no data frame with id X is sent, whatever is published.
C1_NoDataAfterStop ==
    [][\A i \in Ids :
        (i \in DOMAIN stopped /\ i \in DOMAIN stopped') =>
            /\ deregs[stopped[i]] = 1
            /\ DataFramesOfId(sent', i) = DataFramesOfId(sent, i)]_vars

\* The same for the cancelled stream alone: after `stop id=X` the stream it
\* cancelled is deregistered exactly once and none of its items is sent.
C1_CancelledStreamSilent ==
    [][\A i \in Ids :
        (i \in DOMAIN stopped /\ i \in DOMAIN stopped') =>
            /\ deregs[stopped[i]] = 1
            /\ stopped[i] \notin listeners
            /\ DataItemsOfStream(sent', stopped[i]) = DataItemsOfStream(sent, stopped[i])]_vars

\* C2: while the session is open and stream k is not cancelled, the data
\* frames sent for k are exactly the items k produced, one frame per item, in
\* the order k produced them, each carrying the id k was registered under.
C2_DataFramesFollowStream ==
    \A k \in 1..nstreams :
        (pc # "closed" /\ sstate[k] # "closed") =>
            /\ DataItemsOfStream(sent, k) = consumed[k]
            /\ \A n \in 1..Len(sent) :
                (sent[n].type = GQL_DATA /\ sent[n].item.src = k) => sent[n].id = tag[k]

\* C2's case: an uncancelled stream of an open session has produced two items.
C2_Witness ==
    \E k \in 1..nstreams :
        /\ pc # "closed"
        /\ sstate[k] = "live"
        /\ Len(consumed[k]) = 2
        /\ Len(DataFramesOfId(sent, tag[k])) = 2

\* C3: handling a `start` whose query does not parse adds nothing to the
\* Subscription Table and sends exactly one error frame with the start's id.
C3_ParseErrorFrame ==
    [][\A i \in Ids :
        Handled(Message(GQL_START, i, "syntax")) =>
            /\ subscriptions' = subscriptions
            /\ sent' = Append(sent, Frame(GQL_ERROR, i, NoItem))]_vars

\* C4: handling a `start` for which subscribe() returns an error result sends
\* exactly one error frame with the start's id, adds nothing to the
\* Subscription Table and launches no consumer task; an error frame is sent
\* by no other step.
C4_ErrorResultFrame ==
    [][/\ \A i \in Ids :
            Handled(Message(GQL_START, i, "invalid")) =>
                /\ sent' = Append(sent, Frame(GQL_ERROR, i, NoItem))
                /\ subscriptions' = subscriptions
                /\ task' = task
                /\ nstreams' = nstreams
                /\ listeners' = listeners
       /\ (sent' # sent /\ Last(sent').type = GQL_ERROR) =>
            Handled(Message(GQL_START, Last(sent').id, "invalid"))]_vars

\* C4's case: the loop is sending the error frame of such a start while
\* another subscription is registered.
C4_Witness ==
    /\ message = Message(GQL_START, "A", "invalid")
    /\ pc = "sending"
    /\ Len(FramesOfType(sent, GQL_ERROR, "A")) = 1
    /\ "A" \notin DOMAIN subscriptions
    /\ "B" \in DOMAIN subscriptions

\* C5: handling a `stop` whose id is not in the Subscription Table sends no
\* frame, raises nothing, leaves the table, every stream and every consumer
\* task as they were, and the loop goes on to receive the next frame.
C5_StopUnknownNoOp ==
    [][\A i \in Ids :
        (Handled(Message(GQL_STOP, i, NoPayload)) /\ i \notin DOMAIN subscriptions) =>
            /\ UNCHANGED <<sent, subscriptions, sstate, queue, listeners, task,
                           tag, born, consumed, deregs, closedBy>>
            /\ pc' = "receive"]_vars

\* C5's case: `stop A` was handled when A had never been registered, another
\* subscription is still live, and the loop is receiving again.
C5_Witness ==
    /\ message = Message(GQL_STOP, "A", NoPayload)
    /\ "A" \notin DOMAIN subscriptions
    /\ "A" \notin DOMAIN stopped
    /\ \A k \in 1..nstreams : tag[k] # "A"
    /\ "B" \in DOMAIN subscriptions
    /\ sstate[subscriptions["B"]] = "live"
    /\ pc = "receive"
    /\ sent = <<>>

\* C6: when the session has ended because the transport dropped, no stream
\* registered in the Subscription Table is still live.
C6_DropCancelsStreams ==
    closedBy = "drop" =>
        \A i \in DOMAIN subscriptions : sstate[subscriptions[i]] # "live"

\* C7: when the session has ended by connection_terminate, no stream
\* registered in the Subscription Table still has its listener on the bus.
C7_TerminateCancelsStreams ==
    closedBy = "terminate" =>
        \A i \in DOMAIN subscriptions : subscriptions[i] \notin listeners

\* C8: the step that handles connection_terminate leaves the dispatch loop,
\* and once it has, the loop reads and handles no further control frame.
C8_TerminateIsTerminal ==
    [][/\ Handled(Message(GQL_CONNECTION_TERMINATE, NoId, NoPayload)) =>
            (pc' = "closed" /\ closedBy' = "terminate")
       /\ closedBy = "terminate" =>
            /\ pc' = "closed"
            /\ closedBy' = "terminate"
            /\ UNCHANGED <<auxVars, nframes, message, subscriptions>>]_vars

\* C8's case: the session was terminated with subscriptions registered and
\* frames the client may still send.
C8_Witness ==
    /\ closedBy = "terminate"
    /\ message.type = GQL_CONNECTION_TERMINATE
    /\ nframes < MaxFrames
    /\ DOMAIN subscriptions # {}

\* C9: every data frame carries the id under which the stream that produced
\* its item was started, and the item is one that stream produced.
C9_FramesCarryOwnItems ==
    \A n \in 1..Len(sent) :
        sent[n].type = GQL_DATA =>
            /\ sent[n].item.src \in 1..nstreams
            /\ sent[n].id = tag[sent[n].item.src]
            /\ \E m \in 1..Len(consumed[sent[n].item.src]) :
                consumed[sent[n].item.src][m] = sent[n].item

\* C9's case: A and B are both registered and live, and the same event has
\* been sent once in a frame for A and once in a frame for B.
C9_Witness ==
    /\ DOMAIN subscriptions = {"A", "B"}
    /\ sstate[subscriptions["A"]] = "live"
    /\ sstate[subscriptions["B"]] = "live"
    /\ \E n, m \in 1..Len(sent) :
        /\ sent[n].type = GQL_DATA /\ sent[n].id = "A"
        /\ sent[m].type = GQL_DATA /\ sent[m].id = "B"
        /\ sent[n].item.ev = sent[m].item.ev

\* C10: once a registered stream has ended by itself and its consumer task
\* has sent the complete frame, its id is no longer in the Subscription Table.
C10_EndedStreamRemoved ==
    \A i \in DOMAIN subscriptions :
        ~(sstate[subscriptions[i]] = "ended" /\ task[subscriptions[i]] = "done")

\* C11: at no time are two sends in progress on the connection.
C11_WritesSerialized == Cardinality(Writers) <= 1

\* C12: the step that handles a `start` yielding a stream leaves the loop at
\* its receive, with the new stream live, nothing consumed from it and its
\* consumer task launched but not awaited.
C12_StartDoesNotBlock ==
    [][\A i \in Ids :
        Handled(Message(GQL_START, i, "stream")) =>
            /\ pc' = "receive"
            /\ sstate'[nstreams'] = "live"
            /\ consumed'[nstreams'] = <<>>
            /\ task'[nstreams'] = "waiting"]_vars

\* C12's case: `stop B` has just been handled while the earlier subscription A
\* is still live and in the middle of sending a data frame.
C12_Witness ==
    /\ message = Message(GQL_STOP, "B", NoPayload)
    /\ "A" \in DOMAIN subscriptions
    /\ sstate[subscriptions["A"]] = "live"
    /\ task[subscriptions["A"]] = "sending"
    /\ "B" \in DOMAIN stopped
    /\ stopped["B"] > subscriptions["A"]
    /\ pc = "receive"

\* C13: handling a control frame of a type the loop has no branch for sends
\* nothing, raises nothing, leaves the Subscription Table, the streams and the
\* consumer tasks as they were, and the loop receives the next frame.
C13_UnknownTypeIgnored ==
    [][Handled(Message(OtherType, NoId, NoPayload)) =>
        /\ UNCHANGED <<sent, subscriptions, sstate, queue, listeners, task,
                       tag, born, consumed, deregs, closedBy, stopped>>
        /\ pc' = "receive"]_vars

\* C13's case: such a frame was handled as the second frame, with a live
\* subscription registered, and the loop is at its receive again.
C13_Witness ==
    /\ message = Message(OtherType, NoId, NoPayload)
    /\ nframes = 2
    /\ pc = "receive"
    /\ \E i \in DOMAIN subscriptions : sstate[subscriptions[i]] = "live"

\* The handshake is complete: a connection_ack has been sent (the code keeps
\* no session state of its own).
Acked == \E n \in 1..Len(sent) : sent[n].type = GQL_CONNECTION_ACK

\* C17: the step that handles a connection_init hands exactly one
\* connection_ack to the socket, which makes the session ACKED; no other step
\* sends a connection_ack; and no control frame is read while that send is
\* still in progress.
C17_InitIsAcked ==
    [][/\ Handled(Message(GQL_CONNECTION_INIT, NoId, NoPayload)) =>
            /\ sent' = Append(sent, Frame(GQL_CONNECTION_ACK, NoId, NoItem))
            /\ pc' = "sending"
            /\ Acked'
       /\ (sent' # sent /\ Last(sent').type = GQL_CONNECTION_ACK) =>
            Handled(Message(GQL_CONNECTION_INIT, NoId, NoPayload))
       /\ pc = "sending" => nframes' = nframes]_vars

\* C17's case: a second connection_init has just been handled; each of the two
\* got its connection_ack.
C17_Witness ==
    /\ message = Message(GQL_CONNECTION_INIT, NoId, NoPayload)
    /\ pc = "sending"
    /\ Len(FramesOfType(sent, GQL_CONNECTION_ACK, NoId)) = 2
    /\ Last(sent).type = GQL_CONNECTION_ACK

\* C19: every stream that has neither ended nor been cancelled is the stream
\* stored in the Subscription Table under the id it was started with.
C19_LiveStreamsAreRegistered ==
    \A k \in 1..nstreams :
        sstate[k] = "live" =>
            /\ tag[k] \in DOMAIN subscriptions
            /\ subscriptions[tag[k]] = k

\* C20: the step that handles a `start` while no connection_ack has been sent
\* on this connection adds no entry to the Subscription Table and launches no
\* consumer task.
C20_NoStartBeforeAck ==
    [][\A i \in Ids, p \in Payloads :
        (Handled(Message(GQL_START, i, p)) /\ ~Acked) =>
            /\ subscriptions' = subscriptions
            /\ task' = task]_vars

\* C18: a publish hands the event to exactly the streams listening at that
\* moment and to nothing else (with no listener it changes nothing but the
\* event count), and no stream ever holds or sends an event that was
\* published before the stream was started.
C18_OnlyCurrentListeners ==
    /\ [][nevents' = nevents + 1 =>
            /\ \A k \in StreamIds :
                queue'[k] = IF k \in listeners THEN Append(queue[k], nevents')
                            ELSE queue[k]
            /\ UNCHANGED <<sent, pc, closedBy, task, sstate, listeners, subscriptions>>]_vars
    /\ [](\A k \in StreamIds :
            /\ \A n \in 1..Len(queue[k]) : queue[k][n] > born[k]
            /\ \A n \in 1..Len(sent) :
                (sent[n].type = GQL_DATA /\ sent[n].item.src = k) =>
                    sent[n].item.ev > born[k])

\* C18's case: the first event was published with no listener, a subscription
\* was started afterwards, and the only data frame it got is for the second
\* event.
C18_Witness ==
    \E k \in 1..nstreams :
        /\ born[k] = 1
        /\ nevents = 2
        /\ DataItemsOfStream(sent, k) = <<[src |-> k, ev |-> 2]>>
        /\ queue[k] = <<>>

\* C14: a POST with the JSON content type whose body is valid JSON but not
\* an object is answered with status 400 and a plain-text message, and
\* graphql() is not invoked.
C14_NonObjectBodyRejected ==
    (/\ hpc = "responded"
     /\ request.ctype = DATA_TYPE_JSON
     /\ request.body \in {"array", "scalar"}) =>
        /\ response.status = 400
        /\ response.kind = "text"
        /\ ~call.invoked

\* C15: when graphql() returned a result the response has status 200, is
\* the JSON envelope whose data is the result's data, and has the errors
\* key exactly when the result carries at least one error (so a result
\* without errors is answered without the key).
C15_EnvelopeOfResult ==
    (hpc = "responded" /\ result # NoResult) =>
        /\ call.invoked
        /\ response.status = 200
        /\ response.kind = "json"
        /\ response.data = result.data
        /\ response.hasErrors <=> (result.nerrors > 0)
        /\ response.nerrors = result.nerrors

\* C15's case: a request was executed without errors and answered.
C15_Witness ==
    /\ hpc = "responded"
    /\ call = [invoked |-> TRUE, query |-> "{ hello }", variables |-> "given"]
    /\ result = [data |-> "hello", nerrors |-> 0]
    /\ response.status = 200
    /\ ~response.hasErrors
    /\ response.data = "hello"

\* The names registered on the registry.
Registered == {subscribers[n].name : n \in 1..Len(subscribers)}

\* Every registered name's field has the registered subscribe-function.
AllAttached ==
    \A n \in 1..Len(subscribers) :
        /\ subscribers[n].name \in DOMAIN schema.subscribe
        /\ schema.subscribe[subscribers[n].name] = subscribers[n].fn

\* C16 as stated: binding fails exactly when some registered name is not a
\* field of the schema's type of the registry's name, and a binding that
\* does not fail attaches every registered subscribe-function.
C16_FailsIffNameMissing ==
    /\ bpc \in {"bound", "failed"} =>
        (bpc = "failed" <=> Registered \ DOMAIN schema.subscribe # {})
    /\ bpc = "bound" => AllAttached

\* C16, amended: binding fails exactly when the inherited binding raises or
\* some registered name is not a field of the schema's type of the
\* registry's name; a binding that does not fail attaches every registered
\* subscribe-function.
C16_FailsIffSuperOrNameMissing ==
    /\ bpc \in {"bound", "failed"} =>
        (bpc = "failed" <=>
            (superRaised \/ Registered \ DOMAIN schema.subscribe # {}))
    /\ bpc = "bound" => AllAttached

\* C16's case: two names were registered and bound to a type that has
\* both fields and one more.
C16_Witness ==
    /\ bpc = "bound"
    /\ Len(subscribers) = 2
    /\ Registered = {"messages", "notes"}
    /\ DOMAIN schema.subscribe = FieldNames
    /\ AllAttached
    /\ schema.subscribe["other"] = NoSubscriber

====
